---- MODULE Spec2Model ----
(***************************************************************************)
(* Model of the oVirt cluster uninstaller (pkg/destroy/ovirt/destroyer.go) *)
(* and of the describe calls of the Alibaba Cloud storage gateway service  *)
(* (service_alicloud_sgw.go).                                              *)
(*                                                                         *)
(* Spec      : ClusterUninstaller.Run, one action per external call.       *)
(* SpecRetry : the describe calls and the retry wrapper around them.       *)
(***************************************************************************)
EXTENDS Integers, Sequences, FiniteSets, TLC

\* ------------------------------------------------------------------ bounds
\* VMs the engine may hold with tag <infraID> / <infraID>-bootstrap.
MaxNodeVMs == 2
MaxBootstrapVMs == 1
\* Longest tag list, template search result and affinity group list.
MaxTags == 2
MaxTemplates == 2
MaxGroups == 2
\* Calls of Metadata.Client made one after the other.
MaxCalls == 6

\* ------------------------------------------------------------- names, ids
\* Names are sequences of characters, so that concatenation, equality and
\* strings.HasPrefix are computed as the code computes them.
InfraID == <<"o", "c">>
Dash == <<"-">>

\* Run, lines 32-34: tags := [2]string{InfraID, InfraID + "-bootstrap"}
tags == << InfraID, InfraID \o Dash \o <<"b", "s">> >>

\* strings.HasPrefix(s, prefix)
HasPrefix(s, prefix) ==
    /\ Len(prefix) <= Len(s)
    /\ SubSeq(s, 1, Len(prefix)) = prefix

\* The VMs of the engine: <<scope, n>> carries tag tags[scope].
AllVMs == ({1} \X (1..MaxNodeVMs)) \cup ({2} \X (1..MaxBootstrapVMs))

\* vmsService.List().Search("tag=<tag>"): the VMs the engine holds with the tag.
SearchVMs(alive, tag) == {v \in alive : tags[v[1]] = tag}

\* Answers of an external call: success, the resource does not exist, any
\* other failure. The uninstaller sees the last two as a non-nil error.
Answers == {"ok", "notfound", "err"}
IsErr(a) == a # "ok"

\* Names an engine may list for tags and affinity groups.
TagNames == {tags[1], tags[2], <<"x">>}
GroupNames == {InfraID \o Dash \o <<"g">>, InfraID, InfraID \o <<"x", "-", "g">>}

RECURSIVE SeqsUpTo(_, _)
SeqsUpTo(S, n) ==
    IF n = 0 THEN {<<>>}
    ELSE LET shorter == SeqsUpTo(S, n - 1)
         IN shorter \cup {Append(s, x) : s \in {t \in shorter : Len(t) = n - 1}, x \in S}

\* Steps of Run, in program order.
StepVMs(i) == 2 * i - 1
StepTag(i) == 2 * i
StepTemplate == 5
StepGroups == 6
Steps == 1..6

VARIABLES
    pc,         \* position of Run's goroutine
    conn,       \* the connection: "none", "open", "failed", "closed"
    ret,        \* Run's returned error: "none" (running), "nil", "error"
    tagIdx,     \* index of the range loop over tags (lines 36-43)
    RemoveTemplate, \* Metadata.Ovirt.RemoveTemplate
    stepErr,    \* per step, what it returned to Run: "none", "nil", "err"
    trace,      \* the steps whose external calls were issued, in issue order
    vmsAlive,   \* VMs the engine holds
    vms,        \* removeVMs: the listed VMs (one goroutine each)
    wg,         \* removeVMs: the WaitGroup counter
    upc,        \* per VM goroutine: "idle", "stop", "wait", "remove", "done"
    uerr,       \* per VM goroutine: the answer of its last call
    ucalls,     \* per VM goroutine: the calls it issued
    ulog,       \* per VM goroutine: the log lines it wrote
    list,       \* removeTag/removeTemplate/removeAffinityGroups: the listing
    li,         \* ... index of the range loop over the listing
    attempts,   \* ... the remove calls issued: <<index, answer>>
    slog,       \* ... the log lines written by the step
    rerr,       \* ... the error the step is about to return
    templatesRemoved, \* templates the engine removed on a call of this run
    \* SgwService describe calls
    spc,        \* position of the describe call
    fn,         \* the describe function called
    nreq,       \* conn.DoRequest calls made
    answers,    \* the errors conn.DoRequest answered, in order
    waitTime,   \* incrementalWait: the next sleep, in seconds
    waits,      \* the sleeps of wait(), in order
    elapsed,    \* seconds since resource.Retry was called
    err,        \* the function's err variable
    response,   \* the response of the last conn.DoRequest
    result,     \* what the function returned
    \* Metadata.Client
    client,     \* m.client: 0 is nil, n > 0 the client of the n-th NewClient
    created,    \* NewClient calls made
    clientLog,  \* per call of Client, in order: what it saw and returned
    Region,     \* m.Region
    mpc         \* where the running call of Client is

runVars == <<pc, conn, ret, tagIdx, RemoveTemplate, stepErr, trace, vmsAlive,
             vms, wg, upc, uerr, ucalls, ulog, list, li, attempts, slog, rerr,
             templatesRemoved>>
unitVars == <<vms, wg, upc, uerr, ucalls, ulog>>
loopVars == <<list, li, attempts, slog, rerr>>

sgwVars == <<spc, fn, nreq, answers, waitTime, waits, elapsed, err, response, result>>

metaVars == <<client, created, clientLog, Region, mpc>>

vars == <<runVars, sgwVars, metaVars>>

\* A call of step s is issued: trace keeps one entry per run of calls of a step.
Issue(s) == IF trace # <<>> /\ trace[Len(trace)] = s THEN trace ELSE Append(trace, s)

NoUnits ==
    /\ vms = {}
    /\ wg = 0
    /\ upc = [v \in AllVMs |-> "idle"]
    /\ uerr = [v \in AllVMs |-> "none"]
    /\ ucalls = [v \in AllVMs |-> <<>>]
    /\ ulog = [v \in AllVMs |-> <<>>]

NoLoop ==
    /\ list = <<>>
    /\ li = 0
    /\ attempts = <<>>
    /\ slog = <<>>
    /\ rerr = "none"

\* No describe call is under way.
SgwIdle ==
    /\ spc = "idle"
    /\ fn = "none"
    /\ nreq = 0
    /\ answers = <<>>
    /\ waitTime = 0
    /\ waits = <<>>
    /\ elapsed = 0
    /\ err = "nil"
    /\ response = "none"
    /\ result = "none"

\* No Metadata is in use.
MetaIdle ==
    /\ client = 0
    /\ created = 0
    /\ clientLog = <<>>
    /\ Region = ""
    /\ mpc = "idle"

Init ==
    /\ pc = "NewConnection"
    /\ conn = "none"
    /\ ret = "none"
    /\ tagIdx = 1
    /\ RemoveTemplate \in BOOLEAN
    /\ stepErr = [s \in Steps |-> "none"]
    /\ trace = <<>>
    /\ vmsAlive \in SUBSET AllVMs
    /\ NoUnits
    /\ NoLoop
    /\ templatesRemoved = 0
    /\ SgwIdle
    /\ MetaIdle

\* Run, lines 25-29.
NewConnection ==
    /\ pc = "NewConnection"
    /\ \E ok \in BOOLEAN :
         IF ok
         THEN /\ conn' = "open"
              /\ pc' = "removeVMs"
              /\ ret' = ret
         ELSE /\ conn' = "failed"
              /\ pc' = "returned"
              /\ ret' = "error"
    /\ UNCHANGED <<tagIdx, RemoveTemplate, stepErr, trace, vmsAlive, unitVars, loopVars, templatesRemoved, sgwVars, metaVars>>

\* --------------------------------------------------------------- removeVMs
\* What Run does with the error a step returned (lines 37-48): log it, go on.
Returned(s, e) == [stepErr EXCEPT ![s] = e]

\* Mutant: Run gives up when removeVMs returns an error.
AfterVMsErrorReturns == "return"

\* Where Run goes when removeVMs returned an error (lines 37-40): it logs
\* the error and calls removeTag.
AfterVMsError == "removeTag"

\* Mutant: the counter is raised by one however many VMs were listed.
WaitGroupAddOne(n) == IF n > 0 THEN 1 ELSE 0

\* removeVMs, line 63: wg.Add(len(vms)).
WaitGroupAdd(n) == n

\* removeVMs, lines 56-74: the search, then one goroutine per listed VM.
removeVMs ==
    /\ pc = "removeVMs"
    /\ trace' = Issue(StepVMs(tagIdx))
    /\ \E a \in {"ok", "err"} :
         IF IsErr(a)
         THEN /\ stepErr' = Returned(StepVMs(tagIdx), "err")
              /\ pc' = AfterVMsError
              /\ UNCHANGED unitVars
         ELSE /\ vms' = SearchVMs(vmsAlive, tags[tagIdx])
              /\ wg' = WaitGroupAdd(Cardinality(vms'))
              /\ upc' = [v \in AllVMs |-> IF v \in vms' THEN "stop" ELSE "idle"]
              /\ pc' = "wgWait"
              /\ UNCHANGED <<stepErr, uerr, ucalls, ulog>>
    /\ UNCHANGED <<conn, ret, tagIdx, RemoveTemplate, vmsAlive, loopVars, templatesRemoved, sgwVars, metaVars>>

\* Mutant: a failed stop call ends the goroutine.
AfterStopAbortsOnError(v, a) == IF IsErr(a) THEN "done" ELSE "wait"

\* Where the goroutine of v goes after vmService.Stop().Send() answered a.
AfterStop(v, a) == "wait"

\* stopVM, lines 101-108: the stop call and its log line.
stopVM(v) ==
    /\ upc[v] = "stop"
    /\ \E a \in Answers :
         /\ uerr' = [uerr EXCEPT ![v] = a]
         /\ ulog' = [ulog EXCEPT ![v] =
                        Append(@, IF a = "ok" THEN "Stopping VM" ELSE "Failed to stop VM")]
         /\ upc' = [upc EXCEPT ![v] = AfterStop(v, a)]
    /\ ucalls' = [ucalls EXCEPT ![v] = Append(@, "stop")]
    /\ trace' = Issue(StepVMs(v[1]))
    /\ UNCHANGED <<pc, conn, ret, tagIdx, RemoveTemplate, stepErr, vmsAlive, vms, wg, loopVars, templatesRemoved, sgwVars, metaVars>>

\* Mutant: a VM that did not go down in time is not removed.
AfterWaitSkipsRemoveOnTimeout(v, a) == IF IsErr(a) THEN "done" ELSE "remove"

\* Where the goroutine of v goes after WaitForVM answered a.
AfterWait(v, a) == "remove"

\* stopVM, lines 109-115: the wait for VMSTATUS_DOWN (10 minutes) and its log line.
WaitForVM(v) ==
    /\ upc[v] = "wait"
    /\ \E a \in Answers :
         /\ uerr' = [uerr EXCEPT ![v] = a]
         /\ ulog' = [ulog EXCEPT ![v] =
                        Append(@, IF a = "ok" THEN "VM powered off" ELSE "Waited for VM to power off")]
         /\ upc' = [upc EXCEPT ![v] = AfterWait(v, a)]
    /\ ucalls' = [ucalls EXCEPT ![v] = Append(@, "wait")]
    /\ trace' = Issue(StepVMs(v[1]))
    /\ UNCHANGED <<pc, conn, ret, tagIdx, RemoveTemplate, stepErr, vmsAlive, vms, wg, loopVars, templatesRemoved, sgwVars, metaVars>>

\* The engine after a remove call on VM v answered a.
EngineRemove(alive, v, a) == IF a \in {"ok", "notfound"} THEN alive \ {v} ELSE alive

\* Mutant: a goroutine ends without telling the WaitGroup.
WaitGroupDoneNever(n) == n

\* removeVMs, line 72: wg.Done().
WaitGroupDone(n) == n - 1

\* removeVM, lines 119-125, and wg.Done(), line 72.
removeVM(v) ==
    /\ upc[v] = "remove"
    /\ \E a \in Answers :
         /\ uerr' = [uerr EXCEPT ![v] = a]
         /\ ulog' = [ulog EXCEPT ![v] =
                        Append(@, IF a = "ok" THEN "Removing VM" ELSE "Failed to remove VM")]
         /\ vmsAlive' = EngineRemove(vmsAlive, v, a)
    /\ ucalls' = [ucalls EXCEPT ![v] = Append(@, "remove")]
    /\ upc' = [upc EXCEPT ![v] = "done"]
    /\ wg' = WaitGroupDone(wg)
    /\ trace' = Issue(StepVMs(v[1]))
    /\ UNCHANGED <<pc, conn, ret, tagIdx, RemoveTemplate, stepErr, vms, loopVars, templatesRemoved, sgwVars, metaVars>>

\* Mutant: removeVMs returns without joining its goroutines.
WaitGroupNeverBlocks == TRUE

\* wg.Wait() lets Run's goroutine pass.
WaitGroupOpen == wg = 0

\* removeVMs, lines 75-76: the join, and the return of nil to Run. The
\* goroutines that ended are gone with their VM handles.
wgWait ==
    /\ pc = "wgWait"
    /\ WaitGroupOpen
    /\ stepErr' = Returned(StepVMs(tagIdx), "nil")
    /\ pc' = "removeTag"
    /\ vms' = {v \in vms : upc[v] # "done"}
    /\ wg' = wg
    /\ upc' = [v \in AllVMs |-> IF upc[v] = "done" THEN "idle" ELSE upc[v]]
    /\ uerr' = [v \in AllVMs |-> IF upc[v] = "done" THEN "none" ELSE uerr[v]]
    /\ ucalls' = [v \in AllVMs |-> IF upc[v] = "done" THEN <<>> ELSE ucalls[v]]
    /\ ulog' = [v \in AllVMs |-> IF upc[v] = "done" THEN <<>> ELSE ulog[v]]
    /\ UNCHANGED <<conn, ret, tagIdx, RemoveTemplate, trace, vmsAlive, loopVars, templatesRemoved, sgwVars, metaVars>>

\* --------------------------------------------------------------- removeTag
\* removeTag, lines 81-86: the tag listing.
removeTag ==
    /\ pc = "removeTag"
    /\ trace' = Issue(StepTag(tagIdx))
    /\ \/ /\ rerr' = "err"
          /\ UNCHANGED <<list, li>>
       \/ \E resp \in SeqsUpTo(TagNames, MaxTags) :
            /\ list' = resp
            /\ li' = 1
            /\ rerr' = rerr
    /\ pc' = "removeTagLoop"
    /\ UNCHANGED <<conn, ret, tagIdx, RemoveTemplate, stepErr, vmsAlive, unitVars, attempts, slog, templatesRemoved, sgwVars, metaVars>>

\* Mutant: the tags are matched by prefix, as the affinity groups are.
TagMatchesByPrefix(name, tag) == HasPrefix(name, tag)

\* removeTag, line 88: the tags to remove.
TagMatches(name, tag) == name = tag

\* What removeTag does after the remove call of a tag answered a (lines 91-93).
TagRemoveFailed(a) == IF IsErr(a) THEN "err" ELSE "none"

\* removeTag, lines 87-95: one iteration of the range loop.
removeTagLoop ==
    /\ pc = "removeTagLoop"
    /\ rerr = "none"
    /\ li <= Len(list)
    /\ IF TagMatches(list[li], tags[tagIdx])
       THEN \E a \in Answers :
              /\ slog' = Append(slog, "Removing tag")
              /\ attempts' = Append(attempts, <<li, a>>)
              /\ rerr' = TagRemoveFailed(a)
              /\ li' = IF rerr' = "none" THEN li + 1 ELSE li
              /\ trace' = Issue(StepTag(tagIdx))
       ELSE /\ li' = li + 1
            /\ UNCHANGED <<slog, attempts, rerr, trace>>
    /\ UNCHANGED <<pc, conn, ret, tagIdx, RemoveTemplate, stepErr, vmsAlive, unitVars, list, templatesRemoved, sgwVars, metaVars>>

\* A range loop over list has ended, or the step returns its error.
LoopOver == rerr # "none" \/ li > Len(list)

\* Mutant: Run handles the first tag only.
MoreTagsNever(i) == FALSE

\* Run, line 36: the range loop over tags has a tag after the i-th.
MoreTags(i) == i < Len(tags)

\* removeTag, lines 84, 92, 97, and Run, lines 36, 40-43: the return to Run,
\* which logs the error and goes on with the next tag or with the template.
removeTagReturn ==
    /\ pc = "removeTagLoop"
    /\ LoopOver
    /\ stepErr' = Returned(StepTag(tagIdx), IF rerr = "none" THEN "nil" ELSE "err")
    /\ IF MoreTags(tagIdx)
       THEN /\ tagIdx' = tagIdx + 1
            /\ pc' = "removeVMs"
       ELSE /\ tagIdx' = tagIdx
            /\ pc' = "removeTemplate"
    /\ list' = <<>>
    /\ li' = 0
    /\ attempts' = <<>>
    /\ slog' = <<>>
    /\ rerr' = "none"
    /\ UNCHANGED <<conn, ret, RemoveTemplate, trace, vmsAlive, unitVars, templatesRemoved, sgwVars, metaVars>>

\* ---------------------------------------------------------- removeTemplate
\* Names the template search "name=<infraID>-rhcos" may return.
TemplateNames == {InfraID \o Dash \o <<"r">>, InfraID \o Dash \o <<"r", "2">>}

\* Mutant: the template is removed whatever the flag says.
TemplateRemovalAlways == TRUE

\* removeTemplate, line 129: the flag that gates the removal.
TemplateRemovalEnabled == RemoveTemplate

\* removeTemplate, lines 129-135: the flag, the search, and search.Templates().
removeTemplate ==
    /\ pc = "removeTemplate"
    /\ IF TemplateRemovalEnabled
       THEN /\ trace' = Issue(StepTemplate)
            /\ \/ /\ rerr' = "err"
                  /\ UNCHANGED <<list, li>>
               \/ /\ rerr' = "nil"    \* search.Templates() answers ok = false
                  /\ UNCHANGED <<list, li>>
               \/ \E resp \in SeqsUpTo(TemplateNames, MaxTemplates) :
                    /\ list' = resp
                    /\ li' = 1
                    /\ rerr' = rerr
       ELSE /\ rerr' = "nil"
            /\ UNCHANGED <<trace, list, li>>
    /\ pc' = "removeTemplateLoop"
    /\ UNCHANGED <<conn, ret, tagIdx, RemoveTemplate, stepErr, vmsAlive, unitVars, attempts, slog, templatesRemoved, sgwVars, metaVars>>

\* What removeTemplate does after the remove call of a template answered a
\* (lines 142-144).
TemplateRemoveFailed(a) == IF IsErr(a) THEN "err" ELSE "none"

\* removeTemplate, lines 138-145: one iteration of the range loop.
removeTemplateLoop ==
    /\ pc = "removeTemplateLoop"
    /\ rerr = "none"
    /\ li <= Len(list)
    /\ \E a \in Answers :
         /\ slog' = Append(slog, "Removing Template")
         /\ attempts' = Append(attempts, <<li, a>>)
         /\ rerr' = TemplateRemoveFailed(a)
         /\ li' = IF rerr' = "none" THEN li + 1 ELSE li
         /\ templatesRemoved' = IF a = "ok" THEN templatesRemoved + 1 ELSE templatesRemoved
    /\ trace' = Issue(StepTemplate)
    /\ UNCHANGED <<pc, conn, ret, tagIdx, RemoveTemplate, stepErr, vmsAlive, unitVars, list, sgwVars, metaVars>>

\* removeTemplate, lines 133, 143, 148, and Run, lines 44-46.
removeTemplateReturn ==
    /\ pc = "removeTemplateLoop"
    /\ LoopOver
    /\ stepErr' = Returned(StepTemplate, IF rerr \in {"none", "nil"} THEN "nil" ELSE "err")
    /\ pc' = "removeAffinityGroups"
    /\ list' = <<>>
    /\ li' = 0
    /\ attempts' = <<>>
    /\ slog' = <<>>
    /\ rerr' = "none"
    /\ UNCHANGED <<conn, ret, tagIdx, RemoveTemplate, trace, vmsAlive, unitVars, templatesRemoved, sgwVars, metaVars>>

\* ---------------------------------------------------- removeAffinityGroups
\* removeAffinityGroups, lines 152-157: the listing of the cluster's groups.
removeAffinityGroups ==
    /\ pc = "removeAffinityGroups"
    /\ trace' = Issue(StepGroups)
    /\ \/ /\ rerr' = "err"
          /\ UNCHANGED <<list, li>>
       \/ \E resp \in SeqsUpTo(GroupNames, MaxGroups) :
            /\ list' = resp
            /\ li' = 1
            /\ rerr' = rerr
    /\ pc' = "removeAffinityGroupsLoop"
    /\ UNCHANGED <<conn, ret, tagIdx, RemoveTemplate, stepErr, vmsAlive, unitVars, attempts, slog, templatesRemoved, sgwVars, metaVars>>

\* Mutant: the prefix lacks the dash.
GroupMatchesInfraID(name) == HasPrefix(name, InfraID)

\* removeAffinityGroups, line 159: the groups to remove.
GroupMatches(name) == HasPrefix(name, InfraID \o Dash)

\* The log lines of one group removal that answered a (lines 160-164).
GroupLog(a) ==
    IF IsErr(a) THEN <<"Removing AffinityGroup", "failed to remove AffinityGroup">>
    ELSE <<"Removing AffinityGroup">>

\* removeAffinityGroups, lines 158-166: one iteration of the range loop.
removeAffinityGroupsLoop ==
    /\ pc = "removeAffinityGroupsLoop"
    /\ rerr = "none"
    /\ li <= Len(list)
    /\ IF GroupMatches(list[li])
       THEN \E a \in Answers :
              /\ slog' = slog \o GroupLog(a)
              /\ attempts' = Append(attempts, <<li, a>>)
              /\ trace' = Issue(StepGroups)
       ELSE UNCHANGED <<slog, attempts, trace>>
    /\ li' = li + 1
    /\ UNCHANGED <<pc, conn, ret, tagIdx, RemoveTemplate, stepErr, vmsAlive, unitVars, list, rerr, templatesRemoved, sgwVars, metaVars>>

\* removeAffinityGroups, lines 156, 167, and Run, lines 47-49.
removeAffinityGroupsReturn ==
    /\ pc = "removeAffinityGroupsLoop"
    /\ LoopOver
    /\ stepErr' = Returned(StepGroups, IF rerr = "none" THEN "nil" ELSE "err")
    /\ pc' = "return"
    /\ list' = <<>>
    /\ li' = 0
    /\ attempts' = <<>>
    /\ slog' = <<>>
    /\ rerr' = "none"
    /\ UNCHANGED <<conn, ret, tagIdx, RemoveTemplate, trace, vmsAlive, unitVars, templatesRemoved, sgwVars, metaVars>>

\* Mutant: Run returns an error when a step returned one.
RunResultFailsOnStepError(errs) ==
    IF \E s \in Steps : errs[s] = "err" THEN "error" ELSE "nil"

\* The error Run returns once the steps are over (line 51).
RunResult(errs) == "nil"

\* Run, line 51, and the deferred con.Close(), line 29.
RunReturn ==
    /\ pc = "return"
    /\ ret' = RunResult(stepErr)
    /\ conn' = "closed"
    /\ pc' = "returned"
    /\ UNCHANGED <<tagIdx, RemoveTemplate, stepErr, trace, vmsAlive, unitVars, loopVars, templatesRemoved, sgwVars, metaVars>>

Next ==
    \/ NewConnection
    \/ removeVMs
    \/ \E v \in AllVMs : stopVM(v)
    \/ \E v \in AllVMs : WaitForVM(v)
    \/ \E v \in AllVMs : removeVM(v)
    \/ wgWait
    \/ removeTag
    \/ removeTagLoop
    \/ removeTagReturn
    \/ removeTemplate
    \/ removeTemplateLoop
    \/ removeTemplateReturn
    \/ removeAffinityGroups
    \/ removeAffinityGroupsLoop
    \/ removeAffinityGroupsReturn
    \/ RunReturn

Spec == Init /\ [][Next]_vars

\* ------------------------------------------------- SgwService describe calls
\* incrementalWait(3*time.Second, 3*time.Second) and resource.Retry(5*time.Minute, ...)
InitialWait == 3
WaitIncrement == 3
RetryTimeout == 300

DescribeFunctions ==
    {"DescribeCloudStorageGatewayStorageBundle", "DescribeCloudStorageGatewayGateway",
     "DescribeGateway"}

\* The functions whose request runs inside resource.Retry (lines 61, 103).
UsesRetry(f) == f \in {"DescribeCloudStorageGatewayGateway", "DescribeGateway"}

\* Errors of conn.DoRequest by error code; "nil" is no error.
RequestErrors == {"nil", "Throttling", "GatewayNotExist", "StorageBundleNotExist", "InvalidParameter"}

\* NeedRetry(err): the retryable classification (rate limiting, transient
\* connectivity).
NeedRetry(e) == e = "Throttling"

\* IsExpectedErrors(err, codes)
IsExpectedErrors(e, codes) == e \in codes

\* The code each function reads as "the resource does not exist" (lines 32, 74, 116).
NotExistCode(f) ==
    IF f = "DescribeCloudStorageGatewayStorageBundle" THEN "StorageBundleNotExist"
    ELSE "GatewayNotExist"

\* incrementalWait: the closure sleeps waitTime, then adds the increment.
IncrementalWait(w) == w + WaitIncrement

\* Mutant: a retryable error is returned as terminal.
RetryFuncNeverRetries(e) == IF e # "nil" THEN "NonRetryableError" ELSE "nil"

\* Mutant: every error is returned as retryable.
RetryFuncRetriesAll(e) == IF e # "nil" THEN "RetryableError" ELSE "nil"

\* What the function handed to resource.Retry returns for the error e of
\* conn.DoRequest (lines 63-70, 105-112).
RetryFunc(e) ==
    IF e # "nil"
    THEN IF NeedRetry(e) THEN "RetryableError" ELSE "NonRetryableError"
    ELSE "nil"

\* Mutant: the function never sleeps between two requests.
CallsWaitNever(e) == FALSE

\* Whether that function calls wait() before it returns (lines 64-65, 106-107).
CallsWait(e) == e # "nil" /\ NeedRetry(e)

\* resource.Retry calls the function again: the error was retryable and the
\* timeout has not passed.
RetryAgain(kind, now) == kind = "RetryableError" /\ now < RetryTimeout

SgwInit ==
    /\ spc = "NewHcsSgwClient"
    /\ fn \in DescribeFunctions
    /\ nreq = 0
    /\ answers = <<>>
    /\ waitTime = 0
    /\ waits = <<>>
    /\ elapsed = 0
    /\ err = "nil"
    /\ response = "none"
    /\ result = "none"

\* The uninstaller is not running.
RunIdle ==
    /\ pc = "idle"
    /\ conn = "none"
    /\ ret = "none"
    /\ tagIdx = 1
    /\ RemoveTemplate = FALSE
    /\ stepErr = [s \in Steps |-> "none"]
    /\ trace = <<>>
    /\ vmsAlive = {}
    /\ NoUnits
    /\ NoLoop
    /\ templatesRemoved = 0

InitRetry == RunIdle /\ SgwInit /\ MetaIdle

\* s.client.NewHcsSgwClient() (lines 19-22, 50-53, 92-95), and for the
\* gateway functions incrementalWait (lines 60, 102).
NewHcsSgwClient ==
    /\ spc = "NewHcsSgwClient"
    /\ \/ /\ err' = "ClientError"
          /\ result' = "error"
          /\ spc' = "returned"
          /\ waitTime' = waitTime
       \/ /\ spc' = "DoRequest"
          /\ waitTime' = IF UsesRetry(fn) THEN InitialWait ELSE waitTime
          /\ UNCHANGED <<err, result>>
    /\ UNCHANGED <<fn, nreq, answers, waits, elapsed, response, runVars, metaVars>>

\* A response conn.DoRequest may give with error e.
Responses(e) == IF e = "nil" THEN {"Success", "SuccessFalse"} ELSE {"none"}

\* One call of the function handed to resource.Retry (lines 62-70, 104-112),
\* and resource.Retry's decision to call it again.
RetryAttempt ==
    /\ spc = "DoRequest"
    /\ UsesRetry(fn)
    /\ \E e \in RequestErrors : \E r \in Responses(e) :
         /\ err' = e
         /\ response' = r
         /\ answers' = Append(answers, e)
         /\ IF CallsWait(e)
            THEN /\ waits' = Append(waits, waitTime)
                 /\ elapsed' = elapsed + waitTime
                 /\ waitTime' = IncrementalWait(waitTime)
            ELSE UNCHANGED <<waits, elapsed, waitTime>>
         /\ spc' = IF RetryAgain(RetryFunc(e), elapsed') THEN "DoRequest" ELSE "afterRequest"
    /\ nreq' = nreq + 1
    /\ UNCHANGED <<fn, result, runVars, metaVars>>

\* DescribeCloudStorageGatewayStorageBundle, line 30: the request, made once.
DoRequest ==
    /\ spc = "DoRequest"
    /\ ~UsesRetry(fn)
    /\ \E e \in RequestErrors : \E r \in Responses(e) :
         /\ err' = e
         /\ response' = r
         /\ answers' = Append(answers, e)
    /\ nreq' = nreq + 1
    /\ spc' = "afterRequest"
    /\ UNCHANGED <<fn, waitTime, waits, elapsed, result, runVars, metaVars>>

\* What a describe function returns (lines 31-45, 73-87, 115-129).
DescribeResult(f, e, r) ==
    IF e # "nil"
    THEN IF IsExpectedErrors(e, {NotExistCode(f)}) THEN "NotFoundError" ELSE "error"
    ELSE IF UsesRetry(f) /\ r = "SuccessFalse" THEN "error" ELSE "object"

DescribeReturn ==
    /\ spc = "afterRequest"
    /\ result' = DescribeResult(fn, err, response)
    /\ spc' = "returned"
    /\ UNCHANGED <<fn, nreq, answers, waitTime, waits, elapsed, err, response, runVars, metaVars>>

NextRetry ==
    \/ NewHcsSgwClient
    \/ RetryAttempt
    \/ DoRequest
    \/ DescribeReturn

SpecRetry == InitRetry /\ [][NextRetry]_vars

\* ================================================================== claims
\* The calls a VM goroutine at position p has issued.
CallsAt(p) ==
    CASE p = "wait" -> <<"stop">>
      [] p = "remove" -> <<"stop", "wait">>
      [] p = "done" -> <<"stop", "wait", "remove">>
      [] OTHER -> <<>>

Running(v) == upc[v] \in {"stop", "wait", "remove"}

\* C1: in removeVMs every listed VM gets a goroutine; a goroutine that ended
\* has issued its stop and its remove call whatever the answers of its own
\* and of its siblings' calls were; a goroutine that has not ended can always
\* take its next step; and the join opens only when all of them ended.
C1_AllUnitsRunToCompletion ==
    /\ \A v \in vms : upc[v] # "idle"
    /\ \A v \in AllVMs :
         /\ upc[v] = "done" => ucalls[v] = <<"stop", "wait", "remove">>
         /\ Running(v) => ENABLED (stopVM(v) \/ WaitForVM(v) \/ removeVM(v))
    /\ (pc = "wgWait" /\ ENABLED wgWait) => \A v \in vms : upc[v] = "done"

\* Both node VMs were listed, one unit saw every call fail, the other none,
\* and both ended.
C1_Witness ==
    /\ pc = "wgWait"
    /\ Cardinality(vms) >= 2
    /\ \A v \in vms : upc[v] = "done"
    /\ \E v \in vms :
         ulog[v] = <<"Failed to stop VM", "Waited for VM to power off", "Failed to remove VM">>
    /\ \E v \in vms : ulog[v] = <<"Stopping VM", "VM powered off", "Removing VM">>

\* C2: the external calls are issued step by step in the order VMs of
\* <infraID>, tag <infraID>, VMs of <infraID>-bootstrap, tag
\* <infraID>-bootstrap, templates, affinity groups: no call of an earlier
\* step follows a call of a later one, a VM goroutine with calls left exists
\* only while Run waits at the join of that VM's scope, and a completed run
\* has gone through every step in that order.
C2_StepsInOrder ==
    /\ \A i, j \in 1..Len(trace) : i < j => trace[i] < trace[j]
    /\ \A v \in AllVMs : Running(v) => pc = "wgWait" /\ tagIdx = v[1]
    /\ (pc = "returned" /\ ret = "nil") =>
         trace = IF RemoveTemplate THEN <<1, 2, 3, 4, 5, 6>> ELSE <<1, 2, 3, 4, 6>>

\* Run has returned after calls of all six steps, and no VM is left.
C2_Witness ==
    /\ pc = "returned"
    /\ trace = <<1, 2, 3, 4, 5, 6>>
    /\ vmsAlive = {}

Range(q) == {q[i] : i \in 1..Len(q)}

\* The indexes of the listing for which a remove call was issued.
Attempted == {attempts[k][1] : k \in 1..Len(attempts)}

\* C3: when removeTag returns, the tag listing was issued and every listed
\* tag with the scope's name got a remove call. (The claim as stated; the
\* code returns at the first remove call that fails.)
C3_EveryScopeTagGetsRemoveCall ==
    (pc = "removeTagLoop" /\ LoopOver) =>
        /\ StepTag(tagIdx) \in Range(trace)
        /\ \A i \in 1..Len(list) : list[i] = tags[tagIdx] => i \in Attempted

FailureLines ==
    {"Failed to stop VM", "Waited for VM to power off", "Failed to remove VM",
     "failed to remove AffinityGroup"}

\* C4: a call that answers "not found" counts as success: no failure line is
\* logged for it, the step does not return an error because of it, and a
\* describe call does not return one. (The claim as stated; the code knows
\* no "not found" in the uninstaller and returns an error from describe.)
C4_NotFoundIsSuccess ==
    /\ \A v \in AllVMs :
         uerr[v] = "notfound" => ulog[v][Len(ulog[v])] \notin FailureLines
    /\ (\E k \in 1..Len(attempts) : attempts[k][2] = "notfound") =>
         /\ rerr # "err"
         /\ "failed to remove AffinityGroup" \notin Range(slog)
    /\ (spc = "returned" /\ err \in {"GatewayNotExist", "StorageBundleNotExist"}) =>
         result = "object"

\* The element i of the listing is one the running step removes.
Matching(i) ==
    CASE pc = "removeTagLoop" -> list[i] = tags[tagIdx]
      [] pc = "removeAffinityGroupsLoop" ->
           /\ Len(list[i]) >= Len(InfraID) + 1
           /\ SubSeq(list[i], 1, Len(InfraID) + 1) = InfraID \o Dash
      [] OTHER -> TRUE

\* The running step's listing succeeded and held nothing to remove.
ListedNothing ==
    \/ pc = "wgWait" /\ vms = {}
    \/ /\ pc \in {"removeTagLoop", "removeAffinityGroupsLoop"}
       /\ rerr = "none"
       /\ \A i \in 1..Len(list) : ~Matching(i)
    \/ /\ pc = "removeTemplateLoop"
       /\ RemoveTemplate
       /\ rerr # "err"
       /\ list = <<>>

CurStep ==
    CASE pc = "wgWait" -> StepVMs(tagIdx)
      [] pc = "removeTagLoop" -> StepTag(tagIdx)
      [] pc = "removeTemplateLoop" -> StepTemplate
      [] OTHER -> StepGroups

FollowingPc ==
    CASE pc = "wgWait" -> "removeTag"
      [] pc = "removeTagLoop" -> IF tagIdx = 1 THEN "removeVMs" ELSE "removeTemplate"
      [] pc = "removeTemplateLoop" -> "removeAffinityGroups"
      [] OTHER -> "return"

\* C5: a step whose listing succeeded with nothing to remove issues no stop
\* and no remove call, changes nothing in the engine, returns nil to Run,
\* and Run goes on with the following step.
C5_EmptyListingIsNoOp ==
    [][ListedNothing =>
          /\ attempts = <<>> /\ attempts' = <<>>
          /\ \A v \in AllVMs : ucalls[v] = <<>> /\ ucalls'[v] = <<>>
          /\ trace' = trace
          /\ vmsAlive' = vmsAlive
          /\ pc' # pc =>
               /\ stepErr' = [stepErr EXCEPT ![CurStep] = "nil"]
               /\ pc' = FollowingPc]_vars

\* The tag listing of scope <infraID> held two tags, none with the scope's
\* name, one with the name of the other scope; the loop is over.
C5_Witness ==
    /\ pc = "removeTagLoop"
    /\ tagIdx = 1
    /\ list = <<tags[2], <<"x">>>>
    /\ li = 3
    /\ attempts = <<>>

\* The log line of a VM goroutine's call op that answered a.
Msg(op, a) ==
    CASE op = "stop" -> IF a = "ok" THEN "Stopping VM" ELSE "Failed to stop VM"
      [] op = "wait" -> IF a = "ok" THEN "VM powered off" ELSE "Waited for VM to power off"
      [] OTHER -> IF a = "ok" THEN "Removing VM" ELSE "Failed to remove VM"

\* The stop call of v failed or its wait for the down state timed out.
StopOrWaitFailed(v) ==
    \/ "Failed to stop VM" \in Range(ulog[v])
    \/ "Waited for VM to power off" \in Range(ulog[v])

\* The record of goroutine w follows from its own position and answers alone.
OwnRecord(w) ==
    /\ ucalls[w] = CallsAt(upc[w])
    /\ Len(ulog[w]) = Len(ucalls[w])
    /\ ucalls[w] # <<>> => ulog[w][Len(ulog[w])] = Msg(ucalls[w][Len(ucalls[w])], uerr[w])
    /\ Running(w) => ENABLED (stopVM(w) \/ WaitForVM(w) \/ removeVM(w))

\* C8: a VM whose stop call failed or whose wait for the down state timed
\* out still gets its remove call, once and after the wait; and the calls
\* and results of every sibling goroutine are those of its own answers,
\* whatever happened to that VM.
C8_TimeoutStillRemoves ==
    \A v \in AllVMs : StopOrWaitFailed(v) =>
        /\ upc[v] \in {"wait", "remove", "done"}
        /\ upc[v] = "done" => ucalls[v] = <<"stop", "wait", "remove">>
        /\ upc[v] # "done" => "remove" \notin Range(ucalls[v])
        /\ \A w \in vms : OwnRecord(w)

\* A VM's wait timed out, it was removed all the same, and its sibling went
\* through stop, wait and remove without a failure.
C8_Witness ==
    \E v, w \in vms :
        /\ v # w
        /\ upc[v] = "done" /\ upc[w] = "done"
        /\ ulog[v] = <<"Stopping VM", "Waited for VM to power off", "Removing VM">>
        /\ ulog[w] = <<"Stopping VM", "VM powered off", "Removing VM">>

\* C9: Run returns an error exactly when the connection could not be
\* established; with a connection it returns nil whatever the steps returned.
C9_ErrorOnlyFromConnection ==
    /\ ret = "error" <=> conn = "failed"
    /\ pc = "returned" => ret \in {"nil", "error"}
    /\ (pc = "returned" /\ conn # "failed") => ret = "nil" /\ conn = "closed"

\* Run returned nil although every step returned an error to it.
C9_Witness ==
    /\ pc = "returned"
    /\ ret = "nil"
    /\ \A s \in Steps : stepErr[s] = "err"

\* C10: when removeTemplate returns after a successful search, every
\* template of the result got its remove call. (The claim as stated; the
\* code returns at the first remove call that fails.)
C10_EveryTemplateGetsRemoveCall ==
    (pc = "removeTemplateLoop" /\ LoopOver /\ li >= 1) =>
        \A i \in 1..Len(list) : i \in Attempted

\* ---- describe calls
\* C6: with the answers retryable, retryable, success the function handed to
\* resource.Retry is called exactly three times, resource.Retry returns nil,
\* and of the two sleeps the second is not shorter than the first.
C6_TwoRetriesThenSuccess ==
    UsesRetry(fn) =>
        /\ answers \in {<<"Throttling">>, <<"Throttling", "Throttling">>} =>
             /\ spc = "DoRequest"
             /\ Len(waits) = Len(answers)
        /\ (Len(answers) >= 3 /\ SubSeq(answers, 1, 3) = <<"Throttling", "Throttling", "nil">>) =>
             /\ Len(answers) = 3
             /\ nreq = 3
             /\ spc \in {"afterRequest", "returned"}
             /\ err = "nil"
             /\ Len(waits) = 2
             /\ waits[1] <= waits[2]

\* DescribeGateway has returned the object after two retryable errors.
C6_Witness ==
    /\ fn = "DescribeGateway"
    /\ answers = <<"Throttling", "Throttling", "nil">>
    /\ spc = "returned"
    /\ result = "object"

\* C7: when the first request fails with an error that is not retryable, no
\* second request is made, nothing is slept, and the function returns that
\* failure.
C7_NonRetryableReturnsAtOnce ==
    (UsesRetry(fn) /\ answers # <<>>
        /\ answers[1] \in {"GatewayNotExist", "StorageBundleNotExist", "InvalidParameter"}) =>
        /\ Len(answers) = 1
        /\ nreq = 1
        /\ waits = <<>>
        /\ elapsed = 0
        /\ err = answers[1]
        /\ spc \in {"afterRequest", "returned"}
        /\ spc = "returned" => result \in {"error", "NotFoundError"}

\* DescribeGateway returned an error after one request that failed for good.
C7_Witness ==
    /\ fn = "DescribeGateway"
    /\ answers = <<"InvalidParameter">>
    /\ spc = "returned"
    /\ result = "error"

\* ------------------------------------------------ a fault in a VM goroutine
\* The process runs: no goroutine has panicked.
ProcessAlive == pc # "panic"

\* One step of the goroutine of v, while the process runs.
UnitStep(v) == ProcessAlive /\ (stopVM(v) \/ WaitForVM(v) \/ removeVM(v))

\* stopVM, line 101: vm.MustId() panics on a handle that carries no id. The
\* goroutine has no recover (lines 69-73), so the panic ends the process:
\* Run's goroutine and the sibling goroutines stop where they are.
stopVMPanics(v) ==
    /\ ProcessAlive
    /\ upc[v] = "stop"
    /\ upc' = [upc EXCEPT ![v] = "panicked"]
    /\ pc' = "panic"
    /\ UNCHANGED <<conn, ret, tagIdx, RemoveTemplate, stepErr, trace, vmsAlive, vms, wg,
                   uerr, ucalls, ulog, loopVars, templatesRemoved, sgwVars, metaVars>>

NextPanic ==
    \/ NewConnection
    \/ removeVMs
    \/ \E v \in AllVMs : UnitStep(v)
    \/ \E v \in AllVMs : stopVMPanics(v)
    \/ wgWait
    \/ removeTag
    \/ removeTagLoop
    \/ removeTagReturn
    \/ removeTemplate
    \/ removeTemplateLoop
    \/ removeTemplateReturn
    \/ removeAffinityGroups
    \/ removeAffinityGroupsLoop
    \/ removeAffinityGroupsReturn
    \/ RunReturn

\* Run with VM handles that may carry no id.
SpecPanic == Init /\ [][NextPanic]_vars

\* C11: a panic in one VM goroutine is contained: the sibling goroutines can
\* still take their steps, and Run can go on until it has returned. (The
\* claim as stated; the code recovers nothing, the panic ends the process.)
C11_PanicIsContained ==
    \A v \in AllVMs : upc[v] = "panicked" =>
        /\ \A w \in AllVMs : Running(w) => ENABLED UnitStep(w)
        /\ pc = "returned" \/ ENABLED NextPanic

\* A remove call of a template or of an affinity group has been issued.
LateRemoveIssued ==
    /\ pc \in {"removeTemplateLoop", "removeAffinityGroupsLoop"}
    /\ attempts # <<>>

\* C12 as stated: a template or affinity group remove call is issued only
\* when the engine holds no VM of the cluster any more.
C12_RemovedOnlyWhenVMsGone == LateRemoveIssued => vmsAlive = {}

\* C12 as amended: a template or affinity group remove call is issued only
\* after the VM step and the tag step of both scopes have returned and every
\* VM goroutine has ended; VMs whose removal failed may still exist.
C12_RemovedOnlyAfterVMSteps ==
    LateRemoveIssued =>
        /\ \A s \in 1..4 : stepErr[s] # "none"
        /\ vms = {}
        /\ \A v \in AllVMs : upc[v] = "idle"

\* An affinity group remove call was issued after both VM steps returned nil
\* and the engine still holds a VM of each scope.
C12_Witness ==
    /\ pc = "removeAffinityGroupsLoop"
    /\ attempts # <<>>
    /\ stepErr[StepVMs(1)] = "nil" /\ stepErr[StepVMs(2)] = "nil"
    /\ \E v, w \in vmsAlive : v[1] = 1 /\ w[1] = 2

\* C13: removeVMs returns only after every goroutine it started has ended:
\* the counter is the number of goroutines that have not ended, Run leaves
\* the join only when each of them has issued its calls and ended, and
\* outside removeVMs (so when the scope's tag removal begins) none exists.
C13_JoinBarrier ==
    /\ [](/\ wg = Cardinality({v \in vms : upc[v] # "done"})
          /\ pc # "wgWait" => vms = {} /\ \A v \in AllVMs : upc[v] = "idle")
    /\ [][(pc = "wgWait" /\ pc' # "wgWait") =>
             /\ pc' = "removeTag"
             /\ \A v \in vms : upc[v] = "done" /\ ucalls[v] = <<"stop", "wait", "remove">>]_vars

\* The join of the bootstrap scope is about to open: its goroutine has issued
\* its three calls and ended, the counter is back at zero, and the node scope
\* went through its own join before.
C13_Witness ==
    /\ pc = "wgWait" /\ tagIdx = 2
    /\ wg = 0
    /\ vms # {}
    /\ \A v \in vms : upc[v] = "done" /\ ucalls[v] = <<"stop", "wait", "remove">>
    /\ stepErr[StepVMs(1)] = "nil"
    /\ ENABLED wgWait

\* The listing call of the tag, template or affinity group step failed.
ListingFailed ==
    /\ pc \in {"removeTagLoop", "removeTemplateLoop", "removeAffinityGroupsLoop"}
    /\ rerr = "err"
    /\ li = 0

\* C14: a step whose listing call fails starts no goroutine and issues no
\* stop and no remove call, changes nothing in the engine and returns an
\* error to Run, which goes on with the following step; a run that got a
\* connection has attempted every step (the template step when enabled).
C14_ListingFailureSkipsStep ==
    /\ [][(pc = "removeVMs" /\ stepErr'[StepVMs(tagIdx)] = "err") =>
             /\ unitVars' = unitVars
             /\ vmsAlive' = vmsAlive
             /\ tagIdx' = tagIdx
             /\ pc' = "removeTag"]_vars
    /\ [][ListingFailed =>
             /\ attempts = <<>> /\ attempts' = <<>>
             /\ trace' = trace
             /\ vmsAlive' = vmsAlive
             /\ templatesRemoved' = templatesRemoved
             /\ pc' # pc =>
                  /\ stepErr' = [stepErr EXCEPT ![CurStep] = "err"]
                  /\ pc' = FollowingPc]_vars
    /\ []((pc = "returned" /\ ret = "nil") =>
             \A s \in Steps :
                 (s # StepTemplate \/ RemoveTemplate) =>
                     s \in Range(trace) /\ stepErr[s] \in {"nil", "err"})

\* The affinity group listing failed after every earlier step had returned
\* an error too, with nothing removed from the engine.
C14_Witness ==
    /\ ListingFailed
    /\ pc = "removeAffinityGroupsLoop"
    /\ \A s \in 1..5 : stepErr[s] = "err"
    /\ trace = <<1, 2, 3, 4, 5, 6>>
    /\ vmsAlive = AllVMs
    /\ templatesRemoved = 0

\* C15: with RemoveTemplate false no template search and no template remove
\* call is ever issued, no template is removed, the step returns nil, and
\* the affinity group step still runs.
C15_TemplateKeptWhenDisabled ==
    ~RemoveTemplate =>
        /\ StepTemplate \notin Range(trace)
        /\ templatesRemoved = 0
        /\ stepErr[StepTemplate] \in {"none", "nil"}
        /\ pc = "removeTemplateLoop" => attempts = <<>> /\ list = <<>> /\ rerr = "nil"
        /\ (pc = "returned" /\ ret = "nil") =>
               StepGroups \in Range(trace) /\ stepErr[StepGroups] # "none"

\* Run has returned with RemoveTemplate false: the template step returned
\* nil without a call and the affinity group step ran after it.
C15_Witness ==
    /\ ~RemoveTemplate
    /\ pc = "returned"
    /\ trace = <<1, 2, 3, 4, 6>>
    /\ stepErr[StepTemplate] = "nil"
    /\ stepErr[StepGroups] = "nil"

\* C16: removeAffinityGroups issues one remove call for each listed group
\* whose name starts with <infraID>-, in listing order, and none for any
\* other group, whatever the remove calls answer: while the loop runs, the
\* calls issued are those for the matching groups it has passed, and after
\* the loop those for all matching groups.
C16_OneRemovePerMatchingGroup ==
    (pc = "removeAffinityGroupsLoop" /\ rerr = "none") =>
        /\ Attempted = {i \in 1..(li - 1) : Matching(i)}
        /\ \A j, k \in 1..Len(attempts) : j < k => attempts[j][1] < attempts[k][1]
        /\ ENABLED removeAffinityGroupsReturn =>
               Len(attempts) = Cardinality({i \in 1..Len(list) : Matching(i)})

\* Two matching groups were listed; the removal of the first failed and the
\* second got its call all the same.
C16_Witness ==
    /\ pc = "removeAffinityGroupsLoop"
    /\ list = <<InfraID \o Dash \o <<"g">>, InfraID \o Dash \o <<"g">>>>
    /\ li = 3
    /\ attempts = <<<<1, "err">>, <<2, "ok">>>>

\* ---- describe calls, continued
\* C17: whichever describe function runs, a retryable error of its first
\* request is followed by a further request instead of being returned.
\* (The claim as stated; DescribeCloudStorageGatewayStorageBundle makes its
\* request once, outside resource.Retry.)
C17_EveryDescribeRetries ==
    (answers = <<"Throttling">> /\ elapsed < RetryTimeout) =>
        /\ spc = "DoRequest"
        /\ result = "none"

\* Every request so far failed with a retryable error.
AllRetryable == answers # <<>> /\ \A i \in 1..Len(answers) : NeedRetry(answers[i])

\* C18: inside resource.Retry the sleeps never get shorter and no request is
\* made once the five minutes have passed; when every request fails with a
\* retryable error there is one sleep per request, the requests stop with
\* the first sleep that reaches the five minutes, and the function returns
\* an error.
C18_RetryStopsAtDeadline ==
    UsesRetry(fn) =>
        /\ \A i \in 1..(Len(waits) - 1) : waits[i] <= waits[i + 1]
        /\ spc = "DoRequest" => elapsed < RetryTimeout
        /\ AllRetryable =>
             /\ Len(waits) = Len(answers)
             /\ nreq = Len(answers)
             /\ elapsed - waits[Len(waits)] < RetryTimeout
             /\ spc \in {"afterRequest", "returned"} =>
                  elapsed >= RetryTimeout /\ NeedRetry(err)
             /\ spc = "returned" => result = "error"

\* DescribeCloudStorageGatewayGateway returned an error after nothing but
\* retryable errors, the sleeps having reached the five minutes.
C18_Witness ==
    /\ fn = "DescribeCloudStorageGatewayGateway"
    /\ AllRetryable
    /\ Len(answers) > 3
    /\ elapsed >= RetryTimeout
    /\ spc = "returned"
    /\ result = "error"

\* ------------------------------------------------------------ termination
\* Every external call returns and every wait ends, and the scheduler runs a
\* goroutine that can take a step: a step of Run or of a VM goroutine that
\* stays possible is eventually taken.
SpecFair == Init /\ [][Next]_vars /\ WF_vars(Next)

Regions == {"cn-hangzhou", "cn-beijing", "us-east-1"}

\* NewMetadata, lines 12-14: the region is set, the client is nil.
NewMetadata ==
    /\ Region \in Regions
    /\ client = 0
    /\ created = 0
    /\ clientLog = <<>>
    /\ mpc = "idle"

InitClient == RunIdle /\ SgwIdle /\ NewMetadata

\* Mutant: the cached client is never looked at.
ClientMissingAlways(c) == TRUE

\* Client, line 18: m.client == nil
ClientMissing(c) == c = 0

\* One call of Client as the caller sees it: the cache it met, whether and
\* with which region NewClient was called, and the two values returned.
Call(met, new, region, c, e) ==
    [met |-> met, new |-> new, region |-> region, client |-> c, err |-> e]

\* Client, lines 17-18: a call starts and reads the cache.
ClientEnter ==
    /\ mpc = "idle"
    /\ Len(clientLog) < MaxCalls
    /\ mpc' = IF ClientMissing(client) THEN "NewClient" ELSE "return"
    /\ UNCHANGED <<client, created, clientLog, Region, runVars, sgwVars>>

\* Client, lines 19-23: NewClient(m.Region) answers a client, which is cached.
NewClientOk ==
    /\ mpc = "NewClient"
    /\ created' = created + 1
    /\ client' = created'
    /\ mpc' = "return"
    /\ clientLog' = Append(clientLog, Call(client, TRUE, Region, 0, "pending"))
    /\ UNCHANGED <<Region, runVars, sgwVars>>

\* Client, lines 19-22: NewClient(m.Region) fails and Client returns nil, err.
NewClientFails ==
    /\ mpc = "NewClient"
    /\ created' = created + 1
    /\ mpc' = "idle"
    /\ clientLog' = Append(clientLog, Call(client, TRUE, Region, 0, "err"))
    /\ UNCHANGED <<client, Region, runVars, sgwVars>>

\* Client, line 25: return m.client, nil
ClientReturn ==
    /\ mpc = "return"
    /\ mpc' = "idle"
    /\ clientLog' =
         IF clientLog # <<>> /\ clientLog[Len(clientLog)].err = "pending"
         THEN [clientLog EXCEPT ![Len(clientLog)] = Call(@.met, TRUE, @.region, client, "nil")]
         ELSE Append(clientLog, Call(client, FALSE, "", client, "nil"))
    /\ UNCHANGED <<client, created, Region, runVars, sgwVars>>

NextClient ==
    \/ ClientEnter
    \/ NewClientOk
    \/ NewClientFails
    \/ ClientReturn

SpecClient == InitClient /\ [][NextClient]_vars

\* C20: over any sequence of calls of Client made one after the other,
\* NewClient is called, with m.Region, exactly in the calls that meet an
\* empty cache; a call in which NewClient fails returns nil and the error and
\* leaves the cache empty, so that the next call calls NewClient again; and
\* once a call has returned a client every later call returns that same
\* client without calling NewClient.
C20_ClientIsCreatedOnce ==
    /\ \A i \in 1..Len(clientLog) :
         /\ clientLog[i].new <=> clientLog[i].met = 0
         /\ clientLog[i].new => clientLog[i].region = Region
         /\ clientLog[i].err = "err" =>
              /\ clientLog[i].client = 0
              /\ i = Len(clientLog) => client = 0
              /\ i < Len(clientLog) => clientLog[i + 1].met = 0 /\ clientLog[i + 1].new
         /\ clientLog[i].err = "nil" =>
              /\ clientLog[i].client # 0
              /\ client = clientLog[i].client
              /\ \A j \in (i + 1)..Len(clientLog) :
                   /\ ~clientLog[j].new
                   /\ clientLog[j].err = "nil"
                   /\ clientLog[j].client = clientLog[i].client
    /\ created = Cardinality({i \in 1..Len(clientLog) : clientLog[i].new})
    /\ mpc = "NewClient" => client = 0

\* NewClient failed in the first call and answered in the second; the third
\* and the fourth call returned the client of the second.
C20_Witness ==
    /\ mpc = "idle"
    /\ Len(clientLog) = 4
    /\ clientLog[1].err = "err"
    /\ clientLog[2].new /\ clientLog[2].err = "nil"
    /\ ~clientLog[4].new
    /\ clientLog[4].client = clientLog[2].client
    /\ created = 2

====
